---- MODULE Spec2Model ----
(***************************************************************************)
(* Model of app.py: the Streamlit image-to-report pipeline.                *)
(*                                                                         *)
(* One run of main() with an uploaded file is a "request".  Its steps are  *)
(* the actions Upload, ExtractText, Segment, SaveElements, ShowElements,   *)
(* GenerateHtml and Cleanup, in program order.  The filesystem (the        *)
(* temporary input files and the output_elements directory) is shared by   *)
(* all requests.  Library calls are modelled by their documented results:  *)
(*   - pytesseract.image_to_string returns text or raises;                 *)
(*   - cv2.imread returns None for a missing file, and cv2.cvtColor        *)
(*     raises on None;                                                     *)
(*   - cv2.imwrite returns True, returns False without writing (its        *)
(*     result is ignored by the caller), or raises;                        *)
(*   - os.makedirs creates the directory or raises;                        *)
(*   - st.image and os.remove raise when the file does not exist.          *)
(* An image is abstracted to the sequence of areas of the external         *)
(* contours that cv2.findContours discovers in it.                         *)
(***************************************************************************)
EXTENDS Integers, Sequences, FiniteSets, TLC

\* ---------------------------------------------------------------- bounds
MaxContours == 2
MaxRuns == 2

\* ------------------------------------------------------ program constants
AreaThreshold == 1000
FailText == "Text extraction failed. Please try again."
OutputDir == "output_elements"
Sep == "/"

\* ---------------------------------------------------------------- inputs
AllReqs == {1, 2}
SeqReqs == {1}
Names == {"a.png", "b.png"}
SeqNames == {"a.png"}
Areas == {500, 1000, 1001, 2500}
Texts == {"", "Hello", "<b>&"}
OcrOutcomes == {"ok", "TesseractError", "Exception"}
WriteOutcomes == {"ok", "false", "raise"}
MkdirOutcomes == {"ok", "raise"}
SegFaults == {"none", "raise"}
Images == UNION {[1..n -> Areas] : n \in 0..MaxContours}
ConcImages == {<<>>, <<1001>>}

None == "None"
NoFile == [by |-> 0, img |-> <<>>]

VARIABLES
    pc,            \* position of each request in main()
    runs,          \* number of requests started by each session
    name,          \* uploaded_file.name
    temp,          \* filesystem: temp_<name> -> content, or NoFile
    dirExists,     \* filesystem: output_elements exists
    files,         \* filesystem: the files present in output_elements
    text,          \* main: text
    image_cv2,     \* main: image_cv2 (None or the image read)
    contours,      \* main: contours
    element_paths, \* main: element_paths
    html_content,  \* main: html_content, as the fragments appended
    errors,        \* the st.error notifications of the request
    ocr,           \* history: outcome of the OCR call
    found,         \* history: the contours cv2.findContours returned
    segRead,       \* history: what imread found at image_path
    saveRes,       \* history: outcome of makedirs and of every imwrite
    written,       \* history: the files this request wrote
    stages,        \* history: the stages run, in order
    crashAt        \* history: where an unhandled exception ended the run

vars == <<pc, runs, name, temp, dirExists, files, text, image_cv2, contours,
          element_paths, html_content, errors, ocr, found, segRead, saveRes,
          written, stages, crashAt>>

\* ----------------------------------------------------------------- paths
\* variant: the temporary path does not depend on the uploaded name
TempPath_Fixed(nm) == "temp_" \o "upload"

\* image_path = f"temp_{uploaded_file.name}"
TempPath(nm) == "temp_" \o nm

\* variant: the element files are numbered from one
ElementPath_OneBased(output_dir, i) ==
    output_dir \o Sep \o "element_" \o ToString(i + 1) \o ".png"

\* os.path.join(output_dir, f'element_{i}.png')
ElementPath(output_dir, i) == output_dir \o Sep \o "element_" \o ToString(i) \o ".png"

TempPaths == {TempPath(nm) : nm \in Names}

\* ---------------------------------------------------------- extract_text
\* outcome "ok" returns the engine's text; both except branches report an
\* error and return the placeholder.
extract_text(outcome, t) ==
    IF outcome = "ok" THEN [ret |-> t, err |-> <<>>]
    ELSE IF outcome = "TesseractError"
         THEN [ret |-> FailText, err |-> <<"extract">>]
         ELSE [ret |-> FailText, err |-> <<"extract_unexpected">>]

\* ------------------------------------------------ segment_visual_elements
\* cv2.findContours: the contours of the image in discovery order.
FindContours(img) == [i \in 1..Len(img) |-> [idx |-> i, area |-> img[i]]]

\* variant: the filter keeps a contour of area exactly 1000
RECURSIVE FilterLoop_Inclusive(_, _)
FilterLoop_Inclusive(cs, filtered_contours) ==
    IF cs = <<>> THEN filtered_contours
    ELSE FilterLoop_Inclusive(Tail(cs),
                    IF Head(cs).area >= AreaThreshold
                    THEN Append(filtered_contours, Head(cs))
                    ELSE filtered_contours)

\* the filter loop: for contour in contours: if area > 1000: append
RECURSIVE FilterLoop(_, _)
FilterLoop(cs, filtered_contours) ==
    IF cs = <<>> THEN filtered_contours
    ELSE FilterLoop(Tail(cs),
                    IF Head(cs).area > AreaThreshold
                    THEN Append(filtered_contours, Head(cs))
                    ELSE filtered_contours)

\* variant: the except branch returns the contours found so far
segment_visual_elements_KeepContours(content, fault) ==
    IF content = NoFile
    THEN [image |-> None, contours |-> <<>>, err |-> <<"segment">>,
          found |-> <<>>]
    ELSE [image |-> IF fault = "raise" THEN None ELSE content.img,
          contours |-> FilterLoop(FindContours(content.img), <<>>),
          err |-> IF fault = "raise" THEN <<"segment">> ELSE <<>>,
          found |-> FindContours(content.img)]

\* content is what is stored at image_path; fault injects an exception in
\* the OpenCV calls.
segment_visual_elements(content, fault) ==
    IF content = NoFile \/ fault = "raise"
    THEN [image |-> None, contours |-> <<>>, err |-> <<"segment">>,
          found |-> <<>>]
    ELSE [image |-> content.img,
          contours |-> FilterLoop(FindContours(content.img), <<>>),
          err |-> <<>>,
          found |-> FindContours(content.img)]

\* --------------------------------------------------- save_visual_elements
\* the enumerate loop; plan[i+1] is the outcome of cv2.imwrite for index i.
RECURSIVE SaveLoop(_, _, _, _, _, _)
SaveLoop(cs, plan, output_dir, i, element_paths_, wr) ==
    IF i >= Len(cs)
    THEN [ret |-> element_paths_, written |-> wr, err |-> <<>>, raisedAt |-> -1]
    ELSE IF plan[i + 1] = "raise"
         THEN [ret |-> <<>>, written |-> wr, err |-> <<"save">>, raisedAt |-> i]
         ELSE SaveLoop(cs, plan, output_dir, i + 1,
                       Append(element_paths_, ElementPath(output_dir, i)),
                       IF plan[i + 1] = "ok"
                       THEN wr \cup {ElementPath(output_dir, i)}
                       ELSE wr)

\* exists: os.path.exists(output_dir); mk: the outcome of os.makedirs.
save_visual_elements(cs, output_dir, exists, mk, plan) ==
    IF ~exists /\ mk = "raise"
    THEN [ret |-> <<>>, written |-> {}, err |-> <<"save">>, raisedAt |-> -1,
          mkdir |-> "raise"]
    ELSE [mkdir |-> IF exists THEN "skip" ELSE "ok"]
         @@ SaveLoop(cs, plan, output_dir, 0, <<>>, {})

\* ----------------------------------------------------------- generate_html
ImgTag(path) == "<img src=\"" \o path \o "\" />"

\* variant: each tag is inserted before the tags already present
RECURSIVE HtmlLoop_Reversed(_, _)
HtmlLoop_Reversed(paths, html) ==
    IF paths = <<>> THEN html
    ELSE HtmlLoop_Reversed(Tail(paths),
             SubSeq(html, 1, 2) \o <<ImgTag(Head(paths))>>
                 \o SubSeq(html, 3, Len(html)))

RECURSIVE HtmlLoop(_, _)
HtmlLoop(paths, html) ==
    IF paths = <<>> THEN html
    ELSE HtmlLoop(Tail(paths), Append(html, ImgTag(Head(paths))))

\* the fragments appended to html_content, in order
generate_html(t, paths) ==
    Append(HtmlLoop(paths, <<"<html><body>", "<p>" \o t \o "</p>">>),
           "</body></html>")

\* the string generate_html returns
RECURSIVE Render(_)
Render(html) == IF html = <<>> THEN "" ELSE Head(html) \o Render(Tail(html))

\* ------------------------------------------------------------------ main
\* variant: st.image accepts a path that does not exist
FirstMissing_Never(paths, present, i) == 0

\* for path in element_paths: st.image(path): index of the first path that
\* does not exist (st.image raises there), or 0.
RECURSIVE FirstMissing(_, _, _)
FirstMissing(paths, present, i) ==
    IF i > Len(paths) THEN 0
    ELSE IF paths[i] \notin present THEN i
    ELSE FirstMissing(paths, present, i + 1)

\* for path in element_paths: os.remove(path): the files left when the loop
\* ends, and whether os.remove raised on a missing file.
RECURSIVE RemoveLoop(_, _)
RemoveLoop(paths, present) ==
    IF paths = <<>> THEN [files |-> present, raised |-> FALSE]
    ELSE IF Head(paths) \notin present
         THEN [files |-> present, raised |-> TRUE]
         ELSE RemoveLoop(Tail(paths), present \ {Head(paths)})

NoSave == [mkdir |-> "none", raisedAt |-> -1, plan |-> <<>>]

Init ==
    /\ pc = [r \in AllReqs |-> "idle"]
    /\ runs = [r \in AllReqs |-> 0]
    /\ name = [r \in AllReqs |-> "a.png"]
    /\ temp = [p \in TempPaths |-> NoFile]
    /\ dirExists = FALSE
    /\ files = {}
    /\ text = [r \in AllReqs |-> ""]
    /\ image_cv2 = [r \in AllReqs |-> None]
    /\ contours = [r \in AllReqs |-> <<>>]
    /\ element_paths = [r \in AllReqs |-> <<>>]
    /\ html_content = [r \in AllReqs |-> <<>>]
    /\ errors = [r \in AllReqs |-> <<>>]
    /\ ocr = [r \in AllReqs |-> "none"]
    /\ found = [r \in AllReqs |-> <<>>]
    /\ segRead = [r \in AllReqs |-> "none"]
    /\ saveRes = [r \in AllReqs |-> NoSave]
    /\ written = [r \in AllReqs |-> {}]
    /\ stages = [r \in AllReqs |-> <<>>]
    /\ crashAt = [r \in AllReqs |-> "none"]

\* lines 85-88: a script run with an uploaded file; the image is saved to
\* temp_<name>.  Every widget interaction reruns the script.
Upload(r, nm, im) ==
    /\ pc[r] \in {"idle", "done", "crashed"}
    /\ runs[r] < MaxRuns
    /\ runs' = [runs EXCEPT ![r] = @ + 1]
    /\ name' = [name EXCEPT ![r] = nm]
    /\ temp' = [temp EXCEPT ![TempPath(nm)] = [by |-> r, img |-> im]]
    /\ pc' = [pc EXCEPT ![r] = "extract"]
    /\ text' = [text EXCEPT ![r] = ""]
    /\ image_cv2' = [image_cv2 EXCEPT ![r] = None]
    /\ contours' = [contours EXCEPT ![r] = <<>>]
    /\ element_paths' = [element_paths EXCEPT ![r] = <<>>]
    /\ html_content' = [html_content EXCEPT ![r] = <<>>]
    /\ errors' = [errors EXCEPT ![r] = <<>>]
    /\ ocr' = [ocr EXCEPT ![r] = "none"]
    /\ found' = [found EXCEPT ![r] = <<>>]
    /\ segRead' = [segRead EXCEPT ![r] = "none"]
    /\ saveRes' = [saveRes EXCEPT ![r] = NoSave]
    /\ written' = [written EXCEPT ![r] = {}]
    /\ stages' = [stages EXCEPT ![r] = <<>>]
    /\ crashAt' = [crashAt EXCEPT ![r] = "none"]
    /\ UNCHANGED <<dirExists, files>>

\* lines 99-104
ExtractText(r, outcome, t) ==
    /\ pc[r] = "extract"
    /\ LET res == extract_text(outcome, t) IN
         /\ text' = [text EXCEPT ![r] = res.ret]
         /\ errors' = [errors EXCEPT ![r] = @ \o res.err]
    /\ ocr' = [ocr EXCEPT ![r] = outcome]
    /\ stages' = [stages EXCEPT ![r] = Append(@, "extract")]
    /\ pc' = [pc EXCEPT ![r] = "segment"]
    /\ UNCHANGED <<runs, name, temp, dirExists, files, image_cv2, contours,
                   element_paths, html_content, found, segRead, saveRes,
                   written, crashAt>>

\* line 108
Segment(r, fault) ==
    /\ pc[r] = "segment"
    /\ LET content == temp[TempPath(name[r])]
           res == segment_visual_elements(content, fault) IN
         /\ image_cv2' = [image_cv2 EXCEPT ![r] = res.image]
         /\ contours' = [contours EXCEPT ![r] = res.contours]
         /\ errors' = [errors EXCEPT ![r] = @ \o res.err]
         /\ found' = [found EXCEPT ![r] = res.found]
         /\ segRead' = [segRead EXCEPT ![r] =
                IF content = NoFile THEN "missing"
                ELSE IF fault = "raise" THEN "raise"
                ELSE IF content.by = r THEN "own" ELSE "foreign"]
    /\ stages' = [stages EXCEPT ![r] = Append(@, "segment")]
    /\ pc' = [pc EXCEPT ![r] = "save"]
    /\ UNCHANGED <<runs, name, temp, dirExists, files, text, element_paths,
                   html_content, ocr, saveRes, written, crashAt>>

\* line 109
SaveElements(r, mk, plan) ==
    /\ pc[r] = "save"
    /\ LET res == save_visual_elements(contours[r], OutputDir, dirExists,
                                       mk, plan) IN
         /\ element_paths' = [element_paths EXCEPT ![r] = res.ret]
         /\ errors' = [errors EXCEPT ![r] = @ \o res.err]
         /\ written' = [written EXCEPT ![r] = res.written]
         /\ files' = files \cup res.written
         /\ dirExists' = (dirExists \/ res.mkdir = "ok")
         /\ saveRes' = [saveRes EXCEPT ![r] =
                [mkdir |-> res.mkdir, raisedAt |-> res.raisedAt,
                 plan |-> IF res.mkdir = "raise" THEN <<>> ELSE plan]]
    /\ stages' = [stages EXCEPT ![r] = Append(@, "materialize")]
    /\ pc' = [pc EXCEPT ![r] = "show"]
    /\ UNCHANGED <<runs, name, temp, text, image_cv2, contours, html_content,
                   ocr, found, segRead, crashAt>>

\* lines 111-113
ShowElements(r) ==
    /\ pc[r] = "show"
    /\ IF FirstMissing(element_paths[r], files, 1) = 0
       THEN /\ pc' = [pc EXCEPT ![r] = "html"]
            /\ UNCHANGED crashAt
       ELSE /\ pc' = [pc EXCEPT ![r] = "crashed"]
            /\ crashAt' = [crashAt EXCEPT ![r] = "st.image"]
    /\ UNCHANGED <<runs, name, temp, dirExists, files, text, image_cv2,
                   contours, element_paths, html_content, errors, ocr, found,
                   segRead, saveRes, written, stages>>

\* lines 115-116
GenerateHtml(r) ==
    /\ pc[r] = "html"
    /\ html_content' = [html_content EXCEPT ![r] =
                           generate_html(text[r], element_paths[r])]
    /\ stages' = [stages EXCEPT ![r] = Append(@, "report")]
    /\ pc' = [pc EXCEPT ![r] = "cleanup"]
    /\ UNCHANGED <<runs, name, temp, dirExists, files, text, image_cv2,
                   contours, element_paths, errors, ocr, found, segRead,
                   saveRes, written, crashAt>>

\* lines 119-121
Cleanup(r) ==
    /\ pc[r] = "cleanup"
    /\ IF temp[TempPath(name[r])] = NoFile
       THEN /\ pc' = [pc EXCEPT ![r] = "crashed"]
            /\ crashAt' = [crashAt EXCEPT ![r] = "rm_temp"]
            /\ UNCHANGED <<temp, files, stages>>
       ELSE LET res == RemoveLoop(element_paths[r], files) IN
            /\ temp' = [temp EXCEPT ![TempPath(name[r])] = NoFile]
            /\ files' = res.files
            /\ IF res.raised
               THEN /\ pc' = [pc EXCEPT ![r] = "crashed"]
                    /\ crashAt' = [crashAt EXCEPT ![r] = "rm_element"]
                    /\ UNCHANGED stages
               ELSE /\ pc' = [pc EXCEPT ![r] = "done"]
                    /\ stages' = [stages EXCEPT ![r] = Append(@, "cleanup")]
                    /\ UNCHANGED crashAt
    /\ UNCHANGED <<runs, name, dirExists, text, image_cv2, contours,
                   element_paths, html_content, errors, ocr, found, segRead,
                   saveRes, written>>

\* One session: requests run one at a time, with every library outcome.
Next ==
    \E r \in SeqReqs :
        \/ \E nm \in SeqNames, im \in Images : Upload(r, nm, im)
        \/ \E o \in OcrOutcomes, t \in Texts :
               (o # "ok" => t = "Hello") /\ ExtractText(r, o, t)
        \/ \E f \in SegFaults : Segment(r, f)
        \/ \E mk \in MkdirOutcomes,
              plan \in [1..Len(contours[r]) -> WriteOutcomes] :
               (dirExists => mk = "ok") /\ SaveElements(r, mk, plan)
        \/ ShowElements(r)
        \/ GenerateHtml(r)
        \/ Cleanup(r)

Spec == Init /\ [][Next]_vars

\* Two sessions running concurrently, one request each, no library faults:
\* every failure comes from the interleaving.
NextConc ==
    \E r \in AllReqs :
        \/ \E nm \in Names, im \in ConcImages :
               runs[r] = 0 /\ Upload(r, nm, im)
        \/ ExtractText(r, "ok", "Hello")
        \/ Segment(r, "none")
        \/ SaveElements(r, "ok", [i \in 1..Len(contours[r]) |-> "ok"])
        \/ ShowElements(r)
        \/ GenerateHtml(r)
        \/ Cleanup(r)

SpecConc == Init /\ [][NextConc]_vars

\* ======================================================================
\* Properties
\* ======================================================================
PastSave == {"show", "html", "cleanup", "done", "crashed"}
Ended == {"done", "crashed"}
AllStages == <<"extract", "segment", "materialize", "report", "cleanup">>

\* the path the specification gives the crop of the contour at index i
ExpectedPath(i) == "output_elements/element_" \o ToString(i) \o ".png"
ExpectedPaths(n) == [i \in 1..n |-> ExpectedPath(i - 1)]
ExpectedImg(path) == "<img src=\"" \o path \o "\" />"

Count(seq, x) == Cardinality({i \in 1..Len(seq) : seq[i] = x})
AllOk(plan, n) == \A i \in 1..n : plan[i] = "ok"

\* the fragments of a report that are <img> tags of element files
ImgRefs(html) ==
    {i \in 1..Len(html) :
        \E k \in 0..(MaxContours + 1) : html[i] = ExpectedImg(ExpectedPath(k))}

\* ---------------------------------------------------------------- C1
\* C1: when the write for contour k >= 1 raises after the crops 0..k-1 were
\* written, save_visual_elements returns the k paths already written, in
\* order, the report is built from them, and the error is reported once.
C1_PartialPathsReturned ==
    \A r \in SeqReqs :
        (/\ pc[r] \in PastSave
         /\ saveRes[r].raisedAt >= 1
         /\ AllOk(saveRes[r].plan, saveRes[r].raisedAt))
        => /\ element_paths[r] = ExpectedPaths(saveRes[r].raisedAt)
           /\ Count(errors[r], "save") = 1
           /\ Count(stages[r], "materialize") = 1
           /\ (pc[r] \in {"cleanup", "done"} =>
                 Cardinality(ImgRefs(html_content[r])) = saveRes[r].raisedAt)

\* ---------------------------------------------------------------- C2
\* C2: at the end of every request the temporary input file and every
\* element file the request wrote have been deleted.
C2_NoFileSurvives ==
    \A r \in SeqReqs :
        pc[r] \in Ended =>
            /\ temp[TempPath(name[r])] = NoFile
            /\ written[r] \cap files = {}

\* ---------------------------------------------------------------- C3
\* C3: when the directory is available and no write fails,
\* save_visual_elements writes exactly one file per contour and returns
\* output_elements/element_<i>.png for i = 0..n-1 in contour order; for
\* n = 0 it returns the empty list.
C3_AllWritten ==
    \A r \in SeqReqs :
        (/\ pc[r] \in PastSave
         /\ saveRes[r].mkdir \in {"ok", "skip"}
         /\ AllOk(saveRes[r].plan, Len(contours[r])))
        => /\ element_paths[r] = ExpectedPaths(Len(contours[r]))
           /\ written[r] = {ExpectedPath(i) : i \in 0..(Len(contours[r]) - 1)}
           /\ Cardinality(written[r]) = Len(contours[r])
           /\ (pc[r] = "show" => written[r] \subseteq files)
           /\ Count(errors[r], "save") = 0

C3_Witness ==
    /\ pc[1] = "show"
    /\ Len(contours[1]) >= 2
    /\ saveRes[1].mkdir \in {"ok", "skip"}
    /\ AllOk(saveRes[1].plan, Len(contours[1]))
    /\ Len(element_paths[1]) >= 2

\* ---------------------------------------------------------------- C4
\* C4: when the OCR engine raises, extract_text returns the placeholder and
\* the request still runs segmentation, materialization and report
\* generation; the report holds the placeholder and one <img> per
\* materialized element.
C4_OcrFailureContinues ==
    \A r \in SeqReqs :
        ocr[r] \in {"TesseractError", "Exception"} =>
            /\ text[r] = FailText
            /\ pc[r] \in Ended =>
                 /\ Count(stages[r], "segment") = 1
                 /\ Count(stages[r], "materialize") = 1
                 /\ Count(stages[r], "report") = 1
                 /\ Len(html_content[r]) >= 2
                 /\ html_content[r][2] = "<p>" \o FailText \o "</p>"
                 /\ Cardinality(ImgRefs(html_content[r]))
                      = Cardinality(written[r])

\* ---------------------------------------------------------------- C5
SegFailed(r) == segRead[r] \in {"missing", "raise"}

\* C5 as stated: after a segmentation failure the materialization returns
\* the empty list and reports no further error.
C5_NoFurtherError ==
    \A r \in SeqReqs :
        (SegFailed(r) /\ pc[r] \in PastSave) =>
            /\ element_paths[r] = <<>>
            /\ Count(errors[r], "save") = 0

\* C5 (amended): a segmentation failure yields (None, []) and one error; the
\* request does not abort; materialization returns the empty list and writes
\* nothing, reporting an error exactly when creating the output directory
\* fails; the report holds the text and no <img> tag.
C5_SegFailureContinues ==
    \A r \in SeqReqs :
        SegFailed(r) =>
            /\ image_cv2[r] = None
            /\ contours[r] = <<>>
            /\ Count(errors[r], "segment") = 1
            /\ pc[r] # "crashed"
            /\ pc[r] \in PastSave =>
                 /\ element_paths[r] = <<>>
                 /\ written[r] = {}
                 /\ Count(errors[r], "save")
                      = (IF saveRes[r].mkdir = "raise" THEN 1 ELSE 0)
            /\ pc[r] \in {"cleanup", "done"} =>
                 html_content[r] = <<"<html><body>",
                                     "<p>" \o text[r] \o "</p>",
                                     "</body></html>">>

C5_Witness ==
    /\ SegFailed(1)
    /\ pc[1] = "done"
    /\ saveRes[1].mkdir = "raise"
    /\ Len(html_content[1]) = 3

RECURSIVE ExpectedImgs(_)
ExpectedImgs(paths) ==
    IF paths = <<>> THEN ""
    ELSE ExpectedImg(Head(paths)) \o ExpectedImgs(Tail(paths))

C7_Shape ==
    \A r \in SeqReqs :
        pc[r] \in {"cleanup", "done"} =>
            LET h == html_content[r]
                p == element_paths[r] IN
            /\ Len(h) = Len(p) + 3
            /\ h[1] = "<html><body>"
            /\ h[2] = "<p>" \o text[r] \o "</p>"
            /\ \A i \in 1..Len(p) : h[2 + i] = ExpectedImg(p[i])
            /\ h[Len(h)] = "</body></html>"
            /\ Cardinality(ImgRefs(h)) = Len(p)
            /\ Render(h) = "<html><body><p>" \o text[r] \o "</p>"
                             \o ExpectedImgs(p) \o "</body></html>"

C7_Pure ==
    \A r \in SeqReqs :
        (pc[r] = "html" /\ pc'[r] = "cleanup") =>
            /\ html_content'[r] = generate_html(text[r], element_paths[r])
            /\ UNCHANGED <<temp, dirExists, files, text, element_paths,
                           contours, image_cv2, errors, name, runs>>

\* C7: generate_html returns '<html><body>', '<p>' + text + '</p>' with the
\* text unescaped, one '<img src="path" />' per path in input order, then
\* '</body></html>'; the result depends only on its arguments and the call
\* changes nothing else.
C7_GenerateHtml == []C7_Shape /\ [][C7_Pure]_vars

C7_Witness ==
    /\ pc[1] = "cleanup"
    /\ text[1] = "<b>&"
    /\ Len(element_paths[1]) >= 2
    /\ html_content[1][2] = "<p><b>&</p>"

\* ---------------------------------------------------------------- C8
\* C8: in every request the four stages run exactly once, in order,
\* followed by the deletion of the temporary files, whatever fails.
C8_StagesOnceInOrder ==
    \A r \in SeqReqs :
        /\ \A n \in 1..Len(stages[r]) : stages[r][n] = AllStages[n]
        /\ pc[r] \in Ended => stages[r] = AllStages

\* ---------------------------------------------------------------- C9
Interfered(r) ==
    \/ segRead[r] \in {"foreign", "missing"}
    \/ crashAt[r] = "rm_temp"

\* C9: two concurrent requests share the temporary path exactly when their
\* uploads have the same name, and nothing orders them: a request reads the
\* other's image, finds the file deleted, or fails to delete it, only when
\* the other request uploaded a file of the same name (the witness reaches
\* all three).
C9_RaceOnSameName ==
    \A r \in AllReqs :
        Interfered(r) =>
            \E o \in AllReqs \ {r} : runs[o] > 0 /\ name[o] = name[r]

C9_Witness ==
    /\ name[1] = name[2]
    /\ runs[1] = 1 /\ runs[2] = 1
    /\ segRead[1] = "foreign"
    /\ segRead[2] = "missing"
    /\ crashAt[2] = "rm_temp"

\* ---------------------------------------------------------------- C10
ReportPaths(r) ==
    {ExpectedPath(k) : k \in {k \in 0..(MaxContours + 1) :
        \E i \in 1..Len(html_content[r]) :
            html_content[r][i] = ExpectedImg(ExpectedPath(k))}}

\* C10: every element path the report references exists when the report is
\* generated and offered, and none exists once cleanup has completed.
C10_ReportPathsLive ==
    \A r \in SeqReqs :
        /\ pc[r] = "cleanup" =>
              /\ ReportPaths(r) \subseteq files
              /\ ReportPaths(r) = {element_paths[r][i] :
                                     i \in 1..Len(element_paths[r])}
        /\ pc[r] = "done" => ReportPaths(r) \cap files = {}

C10_Witness ==
    /\ pc[1] = "done"
    /\ Cardinality(ReportPaths(1)) >= 2

====
